---- MODULE Spec2Model ----
(***************************************************************************)
(* Model of the Rijksoverheid compensation calculator page.                *)
(*                                                                         *)
(* Two versions of the page component are modelled:                        *)
(*   "uren"   - the page with the hours selector (the component listed in  *)
(*              README.md, lines 16-213)                                   *)
(*   "routes" - src/routes/+page.svelte, which has no hours selector       *)
(*                                                                         *)
(* JavaScript numbers are records [k, v, e]: k is "number", "NaN" or       *)
(* "undefined" (a declared reactive variable that was never assigned); a   *)
(* number is v * 10^e, with e = 0 unless its magnitude is 10^21 or more    *)
(* (then e = 21), the range in which toString() uses exponent notation.    *)
(* Amounts are exact fixed-point values: a rate such as 0.081 is the       *)
(* integer 81 (thousandths), scaleFactor is counted in thirds, so every    *)
(* yearly amount is an integer number of 1/AmountUnit euro.  Strings are   *)
(* sequences of one-character strings.                                     *)
(***************************************************************************)
EXTENDS Integers, Sequences, FiniteSets, TLC

VARIABLES version, hasWindow, searchParams, ctx, error

vars == <<version, hasWindow, searchParams, ctx, error>>

\* ------------------------------------------------------------------ bounds
\* longest query-parameter value that is enumerated
MaxLen == 2

\* largest magnitude of an uren value that is enumerated (the hours of a week)
MaxUren == 168

\* characters a query-parameter value is built from
UrlChars == {"0", "3", "6", "-"}

\* ------------------------------------------------------- fixed-point units
\* rates are written with three decimals (0.081, 0.165, 0.27, 0.919)
RateUnit == 10 * 10 * 10

\* 12 * (uren / 36) is a whole number of thirds
ScaleUnit == 36 \div 12

\* yearly amounts are counted in 1/AmountUnit euro
AmountUnit == RateUnit * ScaleUnit

\* --------------------------------------------------------- JavaScript values
Num(n) == [k |-> "number", v |-> n, e |-> 0]

\* the number n * 10^x
Sci(n, x) == [k |-> "number", v |-> n, e |-> IF n = 0 THEN 0 ELSE x]

NaN == [k |-> "NaN", v |-> 0, e |-> 0]

Undefined == [k |-> "undefined", v |-> 0, e |-> 0]

\* the error thrown by a failed table lookup
NotFound == [k |-> "NotFound", v |-> 0, e |-> 0]

IsNum(x) == x.k = "number"

Mul(a, b) == IF IsNum(a) /\ IsNum(b) THEN Sci(a.v * b.v, a.e + b.e) ELSE NaN

\* a + b; next to a number of 10^21 or more a plain integer is absorbed
Add(a, b) ==
  IF ~(IsNum(a) /\ IsNum(b)) THEN NaN
  ELSE IF a.e = b.e THEN Sci(a.v + b.v, a.e)
  ELSE IF a.e > b.e THEN a ELSE b

Sub(a, b) == Add(a, IF IsNum(b) THEN Sci(0 - b.v, b.e) ELSE b)

\* division by a plain integer; every quotient the page forms is exact in the
\* fixed-point units
Div(a, b) ==
  IF IsNum(a) /\ IsNum(b) /\ b.v # 0 /\ b.e = 0 THEN Sci(a.v \div b.v, a.e)
  ELSE NaN

\* a > b; every comparison with NaN is false
Gt(a, b) ==
  /\ IsNum(a) /\ IsNum(b)
  /\ IF a.e = b.e THEN a.v > b.v ELSE IF a.e > b.e THEN a.v > 0 ELSE b.v < 0

\* a === b
StrictEq(a, b) == IsNum(a) /\ IsNum(b) /\ a.v = b.v /\ a.e = b.e

\* ------------------------------------------------------------------ strings
Digits == <<"0", "1", "2", "3", "4", "5", "6", "7", "8", "9">>

IsDigit(c) == \E i \in 1..10 : Digits[i] = c

DigitVal(c) == (CHOOSE i \in 1..10 : Digits[i] = c) - 1

RECURSIVE SkipSpace(_)
SkipSpace(s) == IF s # <<>> /\ Head(s) = " " THEN SkipSpace(Tail(s)) ELSE s

RECURSIVE DigitPrefix(_)
DigitPrefix(s) ==
  IF s # <<>> /\ IsDigit(Head(s)) THEN <<Head(s)>> \o DigitPrefix(Tail(s)) ELSE <<>>

RECURSIVE DigitsValue(_)
DigitsValue(d) ==
  IF d = <<>> THEN 0
  ELSE 10 * DigitsValue(SubSeq(d, 1, Len(d) - 1)) + DigitVal(d[Len(d)])

\* the digits d end in 21 zeros after a non-empty leading part
EndsIn21Zeros(d) ==
  /\ Len(d) > 21
  /\ \A i \in (Len(d) - 20)..Len(d) : d[i] = "0"

\* parseInt(string): leading blanks, an optional sign, then the longest run of
\* decimal digits; NaN when there is no digit
parseInt(s) ==
  LET t == SkipSpace(s)
      neg == t # <<>> /\ Head(t) = "-"
      u == IF t # <<>> /\ Head(t) \in {"-", "+"} THEN Tail(t) ELSE t
      d == DigitPrefix(u)
      x == IF EndsIn21Zeros(d) THEN 21 ELSE 0
      n == DigitsValue(SubSeq(d, 1, Len(d) - x))
  IN IF d = <<>> THEN NaN ELSE Sci(IF neg THEN 0 - n ELSE n, x)

RECURSIVE NatToString(_)
NatToString(n) ==
  IF n < 10 THEN <<Digits[n + 1]>>
  ELSE NatToString(n \div 10) \o <<Digits[(n % 10) + 1]>>

RECURSIVE StripZeros(_)
StripZeros(d) ==
  IF Len(d) > 1 /\ d[Len(d)] = "0" THEN StripZeros(SubSeq(d, 1, Len(d) - 1))
  ELSE d

\* exponent notation of n * 10^x, n > 0: "d.ddd" then "e+" and the exponent
Exponential(n, x) ==
  LET ds == NatToString(n)
      m == StripZeros(ds)
  IN (IF Len(m) = 1 THEN m ELSE <<Head(m), ".">> \o Tail(m))
       \o <<"e", "+">> \o NatToString(x + Len(ds) - 1)

\* Number.prototype.toString(): decimal digits below 10^21, exponent notation
\* from 10^21
toString(x) ==
  LET n == IF x.v < 0 THEN 0 - x.v ELSE x.v
      sign == IF x.v < 0 THEN <<"-">> ELSE << >>
  IN IF ~IsNum(x) THEN <<"N", "a", "N">>
     ELSE IF x.e = 0 THEN sign \o NatToString(n)
     ELSE sign \o Exponential(n, x.e)

\* ------------------------------------------------------------ URL parameters
ParamNames == {"schaal", "trede", "uren"}

UrlStrings == UNION {[1..n -> UrlChars] : n \in 0..MaxLen}

\* uren values of 22 digits, beyond the range toString() prints in decimal
LongUrenStrings == {[i \in 1..22 |-> IF i = 1 THEN "3" ELSE "0"]}

Str(s) == [k |-> "string", s |-> s]

Null == [k |-> "null", s |-> <<>>]

\* URLSearchParams.get
get(sp, name) == IF name \in DOMAIN sp THEN Str(sp[name]) ELSE Null

\* URLSearchParams.set
set(sp, name, value) ==
  [n \in (DOMAIN sp) \cup {name} |-> IF n = name THEN value ELSE sp[n]]

\* truthiness of a string-or-null value
Truthy(x) == x.k = "string" /\ x.s # <<>>

urlSchaal(sp) == get(sp, "schaal")

urlTrede(sp) == get(sp, "trede")

urlUren(sp) == get(sp, "uren")

\* ------------------------------------------------------------- salary table
\* $lib/salaryData: a static (schaal, trede) -> monthly amount mapping
getAvailableSchalen == <<6, 11, 16>>

getAvailableTredes == <<0, 5, 6>>

salaryTable ==
  [s \in {6, 11, 16} |->
     [t \in {0, 5, 6} |->
        CASE s = 6 -> (CASE t = 0 -> 2500 [] t = 5 -> 2900 [] OTHER -> 3000)
          [] s = 11 -> (CASE t = 0 -> 3600 [] t = 5 -> 4000 [] OTHER -> 4100)
          [] OTHER -> (CASE t = 0 -> 8369 [] t = 5 -> 8370 [] OTHER -> 8500)]]

InTable(schaal, trede) ==
  /\ IsNum(schaal) /\ schaal.e = 0 /\ schaal.v \in DOMAIN salaryTable
  /\ IsNum(trede) /\ trede.e = 0 /\ trede.v \in DOMAIN salaryTable[schaal.v]

getMonthlyCompensation(schaal, trede) ==
  IF InTable(schaal, trede) THEN Num(salaryTable[schaal.v][trede.v]) ELSE NotFound

\* ------------------------------------------- reactive statements, page "uren"
\* variant: a failed lookup is replaced by a zero amount
monthlyCompensation_OrZero(selectedSchaal, selectedTrede) ==
  IF InTable(selectedSchaal, selectedTrede)
  THEN getMonthlyCompensation(selectedSchaal, selectedTrede) ELSE Num(0)

\* $: monthlyCompensation = getMonthlyCompensation(selectedSchaal, selectedTrede)
monthlyCompensation(selectedSchaal, selectedTrede) ==
  getMonthlyCompensation(selectedSchaal, selectedTrede)

\* $: scaleFactor = 12 * (selectedUren / 36), in thirds
scaleFactor(selectedUren) ==
  Div(Mul(Num(12), Mul(selectedUren, Num(ScaleUnit))), Num(36))

\* variant: the yearly salary of twelve months, whatever the hours
yearlyPreTaxSalary_TwelveMonths(mc, sf) ==
  Mul(Mul(mc, Num(RateUnit)), Num(12 * ScaleUnit))

\* $: yearlyPreTaxSalary = monthlyCompensation * scaleFactor
yearlyPreTaxSalary(mc, sf) == Mul(Mul(mc, Num(RateUnit)), sf)

\* $: individualPensionContribution = (monthlyCompensation * 0.081) * scaleFactor
individualPensionContribution(mc, sf) == Mul(Mul(mc, Num(81)), sf)

\* $: ikbBudget = (monthlyCompensation * 0.165) * scaleFactor
ikbBudget(mc, sf) == Mul(Mul(mc, Num(165)), sf)

\* variant: the employee's own contribution is not deducted
pretaxSalaryInclBenefits_NoDeduction(yearly, ikb, own) == Add(yearly, ikb)

\* $: pretaxSalaryInclBenefits = yearlyPreTaxSalary + ikbBudget - individualPensionContribution
pretaxSalaryInclBenefits(yearly, ikb, own) == Sub(Add(yearly, ikb), own)

\* variant: the employer share is the whole 27%
pensoenEmployer_Whole(mc, sf) == Mul(Mul(mc, Num(270)), sf)

\* $: pensoenEmployer = (monthlyCompensation * (0.27 - 0.081)) * scaleFactor
pensoenEmployer(mc, sf) == Mul(Mul(mc, Sub(Num(270), Num(81))), sf)

\* $: pension = individualPensionContribution + pensoenEmployer
pension(own, employer) == Add(own, employer)

\* variant: the pension is deducted instead of added
totalCompensation_Deducted(pretax, pens) == Sub(pretax, pens)

\* $: totalCompensation = pretaxSalaryInclBenefits + pension
totalCompensation(pretax, pens) == Add(pretax, pens)

\* ----------------------------------------- reactive statements, page "routes"
\* $: yearlyPreTaxSalary = (monthlyCompensation * 0.919) * 12
yearlyPreTaxSalaryRoutes(mc) == Mul(Mul(mc, Num(919)), Num(12 * ScaleUnit))

\* $: preTaxTopup = (monthlyCompensation * 0.165) * 12
preTaxTopup(mc) == Mul(Mul(mc, Num(165)), Num(12 * ScaleUnit))

\* $: pretaxSalaryInclBenefits = yearlyPreTaxSalary + preTaxTopup
pretaxSalaryInclBenefitsRoutes(yearly, topup) == Add(yearly, topup)

\* $: pension = (monthlyCompensation * 0.27) * 12
pensionRoutes(mc) == Mul(Mul(mc, Num(270)), Num(12 * ScaleUnit))

\* $: totalCompensation = yearlyPreTaxSalary + preTaxTopup + pension
totalCompensationRoutes(yearly, topup, pens) == Add(Add(yearly, topup), pens)

\* $: totalCompensation5Day = totalCompensation * (5 / 4)
totalCompensation5Day(total) == Div(Mul(total, Num(5)), Num(4))

\* --------------------------------------------------------- component state
\* the component's variables before any statement has run
Blank ==
  [selectedSchaal |-> Undefined, selectedTrede |-> Undefined,
   selectedUren |-> Undefined, monthlyCompensation |-> Undefined,
   scaleFactor |-> Undefined, yearlyPreTaxSalary |-> Undefined,
   individualPensionContribution |-> Undefined, ikbBudget |-> Undefined,
   preTaxTopup |-> Undefined, pretaxSalaryInclBenefits |-> Undefined,
   pensoenEmployer |-> Undefined, pension |-> Undefined,
   totalCompensation |-> Undefined, totalCompensation5Day |-> Undefined]

\* variant: scaleFactor is computed once and kept afterwards
update_StaleScale(c, mc) ==
  LET sf == IF c.scaleFactor = Undefined THEN scaleFactor(c.selectedUren)
            ELSE c.scaleFactor
      yearly == yearlyPreTaxSalary(mc, sf)
      own == individualPensionContribution(mc, sf)
      ikb == ikbBudget(mc, sf)
      pretax == pretaxSalaryInclBenefits(yearly, ikb, own)
      employer == pensoenEmployer(mc, sf)
      pens == pension(own, employer)
  IN [c EXCEPT !.monthlyCompensation = mc, !.scaleFactor = sf,
               !.yearlyPreTaxSalary = yearly,
               !.individualPensionContribution = own, !.ikbBudget = ikb,
               !.pretaxSalaryInclBenefits = pretax,
               !.pensoenEmployer = employer, !.pension = pens,
               !.totalCompensation = totalCompensation(pretax, pens)]

\* the reactive statements of the page with the hours selector, in order
update(c, mc) ==
  LET sf == scaleFactor(c.selectedUren)
      yearly == yearlyPreTaxSalary(mc, sf)
      own == individualPensionContribution(mc, sf)
      ikb == ikbBudget(mc, sf)
      pretax == pretaxSalaryInclBenefits(yearly, ikb, own)
      employer == pensoenEmployer(mc, sf)
      pens == pension(own, employer)
  IN [c EXCEPT !.monthlyCompensation = mc, !.scaleFactor = sf,
               !.yearlyPreTaxSalary = yearly,
               !.individualPensionContribution = own, !.ikbBudget = ikb,
               !.pretaxSalaryInclBenefits = pretax,
               !.pensoenEmployer = employer, !.pension = pens,
               !.totalCompensation = totalCompensation(pretax, pens)]

\* the reactive statements of src/routes/+page.svelte, in order
updateRoutes(c, mc) ==
  LET yearly == yearlyPreTaxSalaryRoutes(mc)
      topup == preTaxTopup(mc)
      pens == pensionRoutes(mc)
      total == totalCompensationRoutes(yearly, topup, pens)
  IN [c EXCEPT !.monthlyCompensation = mc, !.yearlyPreTaxSalary = yearly,
               !.preTaxTopup = topup,
               !.pretaxSalaryInclBenefits =
                  pretaxSalaryInclBenefitsRoutes(yearly, topup),
               !.pension = pens, !.totalCompensation = total,
               !.totalCompensation5Day = totalCompensation5Day(total)]

\* $: { if (typeof window !== 'undefined') { url.searchParams.set(...) ... } }
updateUrl(ver, win, sp, c) ==
  IF ~win THEN sp
  ELSE LET sp1 == set(sp, "schaal", toString(c.selectedSchaal))
           sp2 == set(sp1, "trede", toString(c.selectedTrede))
       IN IF ver = "uren" THEN set(sp2, "uren", toString(c.selectedUren))
          ELSE sp2

\* one run of all reactive statements; a failed lookup throws, and the
\* statements after it are not executed
flush(ver, win, sp, c) ==
  LET mc == monthlyCompensation(c.selectedSchaal, c.selectedTrede)
  IN IF mc.k = "NotFound"
     THEN [ctx |-> c, searchParams |-> sp, error |-> "NotFound"]
     ELSE [ctx |-> IF ver = "uren" THEN update(c, mc) ELSE updateRoutes(c, mc),
           searchParams |-> updateUrl(ver, win, sp, c),
           error |-> "none"]

\* let selectedSchaal = urlSchaal ? parseInt(urlSchaal) : 11
initSchaal(sp) == IF Truthy(urlSchaal(sp)) THEN parseInt(urlSchaal(sp).s) ELSE Num(11)

\* let selectedTrede = urlTrede ? parseInt(urlTrede) : 5
initTrede(sp) == IF Truthy(urlTrede(sp)) THEN parseInt(urlTrede(sp).s) ELSE Num(5)

\* let selectedUren = urlUren ? parseInt(urlUren) : 36
initUren(sp) == IF Truthy(urlUren(sp)) THEN parseInt(urlUren(sp).s) ELSE Num(36)

\* const urenOptions = [27, 36, 38, 40]
urenOptions == <<27, 36, 38, 40>>

\* component construction from the page URL
instance(ver, win, sp) ==
  flush(ver, win, sp,
        [Blank EXCEPT !.selectedSchaal = initSchaal(sp),
                      !.selectedTrede = initTrede(sp),
                      !.selectedUren =
                         IF ver = "uren" THEN initUren(sp) ELSE Undefined])

\* ------------------------------------------------------------------ template
\* the component is on screen: construction did not throw
rendered == error = "none"

\* variant: the threshold named in the text of the caveat
warningNote_137(c) ==
  Gt(Add(c.yearlyPreTaxSalary, c.ikbBudget), Num(137000 * AmountUnit))

\* {#if yearlyPreTaxSalary + ikbBudget > 130000}
warningNote(c) == Gt(Add(c.yearlyPreTaxSalary, c.ikbBudget), Num(130000 * AmountUnit))

\* variant: the block is shown from 36 hours upwards
fiveDayBlock_From36(c) == IsNum(c.selectedUren) /\ c.selectedUren.v >= 36

\* {#if selectedUren === 36}
fiveDayBlock(c) == StrictEq(c.selectedUren, Num(36))

\* variant: the factor 4/5
fiveDayValue_Inverted(c) == Div(Mul(c.totalCompensation, Num(4)), Num(5))

\* {formatCurrency(totalCompensation * (5 / 4))}
fiveDayValue(c) == Div(Mul(c.totalCompensation, Num(5)), Num(4))

warningShown == rendered /\ version = "uren" /\ warningNote(ctx)

fiveDayShown == rendered /\ (version = "routes" \/ fiveDayBlock(ctx))

fiveDayEquivalent ==
  IF version = "routes" THEN ctx.totalCompensation5Day ELSE fiveDayValue(ctx)

\* ------------------------------------------------------------------- actions
\* the query strings a page is opened with; +page.svelte never reads uren
InitialParams(ver) ==
  {sp \in UNION {[D -> UrlStrings \cup LongUrenStrings] :
                   D \in SUBSET (IF ver = "uren" THEN ParamNames
                                 ELSE {"schaal", "trede"})} :
     /\ \A n \in DOMAIN sp : sp[n] \in LongUrenStrings => n = "uren"
     /\ LET u == initUren(sp)
        IN IsNum(u) => (u.v <= MaxUren /\ 0 - u.v <= MaxUren)}

Init ==
  /\ version \in {"uren", "routes"}
  /\ hasWindow \in BOOLEAN
  /\ \E sp \in InitialParams(version) :
       LET r == instance(version, hasWindow, sp)
       IN /\ ctx = r.ctx
          /\ searchParams = r.searchParams
          /\ error = r.error

\* the result of a change event on one of the selects
Apply(c) ==
  LET r == flush(version, hasWindow, searchParams, c)
  IN /\ ctx' = r.ctx
     /\ searchParams' = r.searchParams
     /\ error' = r.error
     /\ UNCHANGED <<version, hasWindow>>

\* <select id="schaal" bind:value={selectedSchaal}>
SelectSchaal ==
  /\ rendered /\ hasWindow
  /\ \E i \in DOMAIN getAvailableSchalen :
       Apply([ctx EXCEPT !.selectedSchaal = Num(getAvailableSchalen[i])])

\* <select id="trede" bind:value={selectedTrede}>
SelectTrede ==
  /\ rendered /\ hasWindow
  /\ \E i \in DOMAIN getAvailableTredes :
       Apply([ctx EXCEPT !.selectedTrede = Num(getAvailableTredes[i])])

\* <select id="uren" bind:value={selectedUren}>
SelectUren ==
  /\ rendered /\ hasWindow /\ version = "uren"
  /\ \E i \in DOMAIN urenOptions :
       Apply([ctx EXCEPT !.selectedUren = Num(urenOptions[i])])

Next == SelectSchaal \/ SelectTrede \/ SelectUren

Spec == Init /\ [][Next]_vars

\* ==================================================================== claims
\* the page with the hours selector is on screen
UrenPage == rendered /\ version = "uren"

\* the selected hours are one of the options of the hours selector
ValidUren == \E i \in DOMAIN urenOptions : ctx.selectedUren = Num(urenOptions[i])

\* the reference formulas of the calculator for monthly base m and hours h:
\* rate * m * scaleFactor with scaleFactor = 12 * (h / 36), in 1/AmountUnit euro
RefScale(h) == (12 * h * ScaleUnit) \div 36

RefAmount(m, rate, h) == m * rate * RefScale(h)

\* every amount of the page equals its reference formula
MatchesReference(c) ==
  LET m == c.monthlyCompensation.v
      h == c.selectedUren.v
  IN /\ c.scaleFactor = Num(RefScale(h))
     /\ c.yearlyPreTaxSalary = Num(RefAmount(m, 1000, h))
     /\ c.individualPensionContribution = Num(RefAmount(m, 81, h))
     /\ c.ikbBudget = Num(RefAmount(m, 165, h))
     /\ c.pretaxSalaryInclBenefits =
          Num(c.yearlyPreTaxSalary.v + c.ikbBudget.v
                - c.individualPensionContribution.v)
     /\ c.pensoenEmployer = Num(RefAmount(m, 270, h) - RefAmount(m, 81, h))
     /\ c.pension = Num(c.individualPensionContribution.v + c.pensoenEmployer.v)
     /\ c.totalCompensation = Num(c.pretaxSalaryInclBenefits.v + c.pension.v)

\* the state of the spec's scenario: monthly base 4000 at 36 hours
Scenario ==
  UrenPage /\ ctx.monthlyCompensation = Num(4000) /\ ctx.selectedUren = Num(36)

\* C1 (as stated): for every table amount and every hours option the page's
\* breakdown equals the reference formulas, and monthly base 4000 at 36 hours
\* gives a total compensation of 63408.
C1_Original ==
  /\ (UrenPage /\ ValidUren) => MatchesReference(ctx)
  /\ Scenario => ctx.totalCompensation = Num(63408 * AmountUnit)

\* C1 (amended): for every table amount and every hours option the page's
\* breakdown equals the reference formulas; monthly base 4000 at 36 hours gives
\* yearly gross 48000, employee pension 3888, choice budget 7920, employer
\* pension 9072 and a total compensation of 64992.
C1_Breakdown ==
  /\ (UrenPage /\ ValidUren) => MatchesReference(ctx)
  /\ Scenario =>
       /\ ctx.scaleFactor = Num(12 * ScaleUnit)
       /\ ctx.yearlyPreTaxSalary = Num(48000 * AmountUnit)
       /\ ctx.individualPensionContribution = Num(3888 * AmountUnit)
       /\ ctx.ikbBudget = Num(7920 * AmountUnit)
       /\ ctx.pensoenEmployer = Num(9072 * AmountUnit)
       /\ ctx.totalCompensation = Num(64992 * AmountUnit)

C1_Witness ==
  /\ Scenario
  /\ ctx.totalCompensation = Num(64992 * AmountUnit)
  /\ ctx.pension = Num(12960 * AmountUnit)

\* C2: for a table pair and an hours option, the total compensation is at least
\* the yearly salary figure, on both versions of the page.
C2_TotalAtLeastGross ==
  (rendered /\ (version = "uren" => ValidUren)) =>
    /\ IsNum(ctx.totalCompensation) /\ IsNum(ctx.yearlyPreTaxSalary)
    /\ ctx.totalCompensation.v >= ctx.yearlyPreTaxSalary.v

C2_Witness ==
  /\ UrenPage /\ ctx.selectedUren = Num(27)
  /\ ctx.monthlyCompensation = Num(2500)
  /\ ctx.totalCompensation.v > ctx.yearlyPreTaxSalary.v

\* C3: the yearly gross for hours h is the yearly gross of the same table
\* amount at 36 hours, multiplied by h/36.
C3_ScalingLinearity ==
  (UrenPage /\ ValidUren) =>
    LET at36 == yearlyPreTaxSalary(ctx.monthlyCompensation, scaleFactor(Num(36)))
    IN /\ IsNum(at36) /\ at36.v % 36 = 0
       /\ ctx.yearlyPreTaxSalary = Num((at36.v \div 36) * ctx.selectedUren.v)

C3_Witness ==
  /\ UrenPage /\ ctx.selectedUren = Num(40)
  /\ ctx.monthlyCompensation = Num(3600)
  /\ ctx.yearlyPreTaxSalary = Num(48000 * AmountUnit)

\* C4: at 36 contracted hours scaleFactor is 12 and the five-day equivalent is
\* 1.25 times the total compensation.
C4_FiveDayAt36 ==
  /\ (UrenPage /\ ctx.selectedUren = Num(36)) =>
       /\ ctx.scaleFactor = Num(12 * ScaleUnit)
       /\ IsNum(fiveDayEquivalent)
       /\ 4 * fiveDayEquivalent.v = 5 * ctx.totalCompensation.v
  /\ (rendered /\ version = "routes") =>
       /\ IsNum(fiveDayEquivalent)
       /\ 4 * fiveDayEquivalent.v = 5 * ctx.totalCompensation.v

C4_Witness ==
  /\ Scenario /\ fiveDayShown
  /\ fiveDayEquivalent = Num(81240 * AmountUnit)

\* C5: the high-income caveat is shown exactly when yearly gross plus choice
\* budget exceeds 130000, and the amounts follow the same formulas whether or
\* not it is shown.
C5_Caveat ==
  (UrenPage /\ IsNum(ctx.selectedUren) /\ ctx.selectedUren.e = 0) =>
    LET m == ctx.monthlyCompensation.v
        h == ctx.selectedUren.v
    IN /\ warningShown <=>
            (RefAmount(m, 1000, h) + RefAmount(m, 165, h) > 130000 * AmountUnit)
       /\ MatchesReference(ctx)

C5_Witness ==
  /\ UrenPage /\ warningShown
  /\ ctx.monthlyCompensation = Num(8370) /\ ctx.selectedUren = Num(40)

\* the caveat is absent just below the threshold
C5_WitnessBelow ==
  /\ UrenPage /\ ~warningShown
  /\ ctx.monthlyCompensation = Num(8369) /\ ctx.selectedUren = Num(40)

\* C6: on the rendered page with the hours selector the five-day equivalent is
\* presented if and only if the selected hours are 36; never for 27, 38 or 40.
C6_FiveDayOnlyAt36 ==
  UrenPage =>
    /\ fiveDayShown <=> (ctx.selectedUren = Num(36))
    /\ (IsNum(ctx.selectedUren) /\ ctx.selectedUren.v \in {27, 38, 40})
         => ~fiveDayShown

C6_Witness == UrenPage /\ ctx.selectedUren = Num(38) /\ ~fiveDayShown

C6_WitnessShown == UrenPage /\ ctx.selectedUren = Num(36) /\ fiveDayShown

\* C7: in every reachable state the selected (schaal, trede) pair is in the
\* salary table.
C7_SelectedPairInTable == InTable(ctx.selectedSchaal, ctx.selectedTrede)

\* C8: in every reachable state of the page with the hours selector the
\* contracted hours are a positive number, scaleFactor is positive and every
\* computed amount is a non-negative number.
C8_PositiveHours ==
  version = "uren" =>
    /\ IsNum(ctx.selectedUren) /\ ctx.selectedUren.v > 0
    /\ rendered =>
         /\ IsNum(ctx.scaleFactor) /\ ctx.scaleFactor.v > 0
         /\ \A a \in {ctx.yearlyPreTaxSalary, ctx.individualPensionContribution,
                      ctx.ikbBudget, ctx.pretaxSalaryInclBenefits,
                      ctx.pensoenEmployer, ctx.pension, ctx.totalCompensation} :
              IsNum(a) /\ a.v > 0

C10_PensionSplit ==
  (UrenPage /\ ValidUren) =>
    /\ ctx.yearlyPreTaxSalary.v % 100 = 0
    /\ ctx.pension.v = (ctx.yearlyPreTaxSalary.v \div 100) * 27
    /\ 3 * ctx.pensoenEmployer.v = 2 * ctx.pension.v
    /\ 3 * ctx.individualPensionContribution.v = ctx.pension.v

\* the current selection of a component
Selection(c) == <<c.selectedSchaal, c.selectedTrede, c.selectedUren>>

\* the variables of a component that is built from the selection of c alone,
\* with no earlier state
FromSelectionAlone(c) ==
  flush(version, FALSE, << >>,
        [Blank EXCEPT !.selectedSchaal = c.selectedSchaal,
                      !.selectedTrede = c.selectedTrede,
                      !.selectedUren = c.selectedUren]).ctx

\* C11: after any sequence of selections every amount is the value the
\* formulas give for the current selection alone, and a change event that
\* repeats the current selection leaves every amount unchanged.
C11_CurrentSelectionOnly ==
  /\ [](rendered => ctx = FromSelectionAlone(ctx))
  /\ [][Selection(ctx') = Selection(ctx) => ctx' = ctx]_vars

\* hours 40 were selected after the page had been opened with other hours
C11_Witness ==
  /\ UrenPage /\ hasWindow
  /\ ctx.selectedUren = Num(40) /\ ctx.monthlyCompensation = Num(4100)
  /\ "uren" \in DOMAIN searchParams /\ searchParams["uren"] = <<"4", "0">>
  /\ ctx.totalCompensation = Num(RefAmount(4100, 1354, 40))

\* the value of a query parameter, or the empty string when it is absent
ParamValue(sp, name) == IF name \in DOMAIN sp THEN sp[name] ELSE << >>

\* the selection a component starts with when it is opened with query sp
InitialSelection(sp) == Selection(instance(version, hasWindow, sp).ctx)

\* C12: in the browser, after any sequence of selections, the query parameters
\* schaal, trede and (on the page with the hours selector) uren are the decimal
\* text of the current selection, and a page opened with that query starts
\* with exactly the same selection.
C12_UrlRoundTrip ==
  (rendered /\ hasWindow) =>
    /\ DOMAIN searchParams =
         (IF version = "uren" THEN ParamNames ELSE {"schaal", "trede"})
    /\ parseInt(ParamValue(searchParams, "schaal")) = ctx.selectedSchaal
    /\ parseInt(ParamValue(searchParams, "trede")) = ctx.selectedTrede
    /\ version = "uren" =>
         parseInt(ParamValue(searchParams, "uren")) = ctx.selectedUren
    /\ InitialSelection(searchParams) = Selection(ctx)
    /\ instance(version, hasWindow, searchParams).ctx = ctx

\* the amounts both page versions show: pre-tax total including the choice
\* budget, total pension, total compensation and five-day equivalent
SharedFigures(c, fiveDay) ==
  <<c.pretaxSalaryInclBenefits, c.pension, c.totalCompensation, fiveDay>>

\* the page with the hours selector at 36 hours, for monthly amount mc
UrenPageAt36(mc) == update([Blank EXCEPT !.selectedUren = Num(36)], mc)

\* src/routes/+page.svelte for monthly amount mc
RoutesPage(mc) == updateRoutes(Blank, mc)

\* C13: for every monthly base amount the page without an hours selector and
\* the page with the selector at 36 hours compute the same pre-tax total
\* including the choice budget, total pension, total compensation and five-day
\* equivalent; the yearly gross figure is 0.919 * 12 * m on the former and
\* 12 * m on the latter.
C13_VersionsAgreeAt36 ==
  LET mc == ctx.monthlyCompensation
      u == UrenPageAt36(mc)
      r == RoutesPage(mc)
  IN /\ (UrenPage /\ ctx.selectedUren = Num(36)) =>
          /\ SharedFigures(ctx, fiveDayEquivalent)
               = SharedFigures(r, r.totalCompensation5Day)
          /\ ctx.ikbBudget = r.preTaxTopup
          /\ ctx.yearlyPreTaxSalary = Num(12 * mc.v * AmountUnit)
          /\ r.yearlyPreTaxSalary = Num(919 * 12 * mc.v * ScaleUnit)
          /\ ctx.yearlyPreTaxSalary # r.yearlyPreTaxSalary
     /\ (rendered /\ version = "routes") =>
          /\ SharedFigures(ctx, fiveDayEquivalent)
               = SharedFigures(u, fiveDayValue(u))
          /\ ctx.preTaxTopup = u.ikbBudget
          /\ ctx.yearlyPreTaxSalary = Num(919 * 12 * mc.v * ScaleUnit)
          /\ u.yearlyPreTaxSalary = Num(12 * mc.v * AmountUnit)
          /\ ctx.yearlyPreTaxSalary # u.yearlyPreTaxSalary

\* +page.svelte at monthly base 4000: the totals of the 36-hour scenario
C13_Witness ==
  /\ rendered /\ version = "routes"
  /\ ctx.monthlyCompensation = Num(4000)
  /\ ctx.totalCompensation = Num(64992 * AmountUnit)
  /\ ctx.totalCompensation5Day = Num(81240 * AmountUnit)
  /\ ctx.yearlyPreTaxSalary = Num(44112 * AmountUnit)

====
